---------------------------- MODULE Spec2Model ----------------------------
(* A model of src/main.py: the chess pieces' can_move predicates, Board      *)
(* (is_valid_move, move_piece, setup_pieces) and Game (start_game, move,     *)
(* end_game).                                                                *)
EXTENDS Integers, FiniteSets, Sequences, TLC

VARIABLES board, current_turn, game_over, lastCall, nMoves

vars == <<board, current_turn, game_over, lastCall, nMoves>>

(* ------------------------------ bounds ---------------------------------- *)

\* Successful Board.move_piece calls explored on a bare Board.
MaxMoves == 3

\* Successful Board.move_piece calls explored on the Board of a Game.
MaxGameMoves == 2

\* The calls explored take their squares from the queens' and kings' files.
MoveFiles == {3, 4}

\* How far outside [0,8) the coordinates handed to is_valid_move range.
Margin == 1

\* Pieces other than the mover on a board drawn for a can_move call.
MaxOthers == 2

\* The drawn boards hold their pieces on three files, all of them in the rows
\* next to White's pawns (1 to 3) or all in those next to Black's (4 to 6); the
\* destinations asked for range over both halves.
PureFiles == 0 .. 2
Halves == {1 .. 3, 4 .. 6}

(* ------------------------- Color, Piece, grid --------------------------- *)

WHITE == "white"
BLACK == "black"
Color == {WHITE, BLACK}

Kinds == {"King", "Queen", "Rook", "Bishop", "Knight", "Pawn"}

\* Python's None in a square of the grid.
None == [kind |-> "None", color |-> "none"]

Piece(kind, color) == [kind |-> kind, color |-> color]

Idx == 0 .. 7
Pos == Idx \X Idx

\* The grid of Board.__init__ before setup_pieces.
EmptyGrid == [r \in Idx |-> [c \in Idx |-> None]]

abs(x) == IF x < 0 THEN 0 - x ELSE x

InGrid(pos) == pos[1] \in Idx /\ pos[2] \in Idx

\* Python list indexing of an 8-element list: -8 .. -1 wrap around, anything
\* else outside 0 .. 7 raises IndexError.
PyIndexOk(i) == i >= -8 /\ i <= 7
PyIndex(i) == IF i < 0 THEN i + 8 ELSE i

\* Board.get_piece(pos): the occupant of the square, no range check.
get_piece(b, pos) == b[PyIndex(pos[1])][PyIndex(pos[2])]

\* Board.is_occupied(pos): whether the square holds a piece, no range check.
is_occupied(b, pos) == get_piece(b, pos) # None

(* ------------------------ outcomes of a call ---------------------------- *)

\* What a call did: its boolean result, whether it raised IndexError instead
\* of returning, and whether it indexed the grid outside [0,8) x [0,8).
Outcome(ret, raised, off) == [ret |-> ret, raised |-> raised, off |-> off]
Returns(v) == Outcome(v, FALSE, FALSE)

\* DestOk without the colour test: any destination will do.
DestOk_AnyColour(self, b, end_pos) ==
  ~is_occupied(b, end_pos) \/ TRUE

\* The shared last test of King, Queen, Rook, Bishop and Knight.
DestOk(self, b, end_pos) ==
  ~is_occupied(b, end_pos) \/ get_piece(b, end_pos).color # self.color

\* Walk without the occupancy test: the path always counts as clear.
Walk_NoOccupancyTest(b, cur, end_pos, rs, cs, off) ==
  [res |-> "clear", off |-> off]

(* The while loop of Queen, Rook and Bishop: from cur, step by (rs, cs)      *)
(* until end_pos, returning False at the first occupied square.              *)
RECURSIVE Walk(_, _, _, _, _, _)
Walk(b, cur, end_pos, rs, cs, off) ==
  IF cur = end_pos THEN [res |-> "clear", off |-> off]
  ELSE IF ~(PyIndexOk(cur[1]) /\ PyIndexOk(cur[2]))
       THEN [res |-> "IndexError", off |-> TRUE]
  ELSE IF is_occupied(b, cur)
       THEN [res |-> "blocked", off |-> off \/ ~InGrid(cur)]
  ELSE Walk(b, <<cur[1] + rs, cur[2] + cs>>, end_pos, rs, cs,
            off \/ ~InGrid(cur))

\* The body shared by the three sliding pieces once the alignment test passed.
Slide(self, b, start_pos, end_pos, rs, cs) ==
  LET w == Walk(b, <<start_pos[1] + rs, start_pos[2] + cs>>, end_pos,
                rs, cs, FALSE)
  IN  IF w.res = "IndexError" THEN Outcome(FALSE, TRUE, TRUE)
      ELSE IF w.res = "blocked" THEN Outcome(FALSE, FALSE, w.off)
      ELSE Outcome(DestOk(self, b, end_pos), FALSE, w.off)

\* 0 if equal, else 1 or -1 towards the end (Queen, Rook).
Step3(s, e) == IF s = e THEN 0 ELSE IF e > s THEN 1 ELSE -1
\* 1 or -1, never 0 (Bishop).
Step2(s, e) == IF e > s THEN 1 ELSE -1

(* ----------------------------- can_move --------------------------------- *)

King_can_move(self, b, start_pos, end_pos) ==
  IF abs(end_pos[1] - start_pos[1]) <= 1 /\ abs(end_pos[2] - start_pos[2]) <= 1
  THEN Returns(DestOk(self, b, end_pos))
  ELSE Returns(FALSE)

Queen_can_move(self, b, start_pos, end_pos) ==
  IF \/ start_pos[1] = end_pos[1]
     \/ start_pos[2] = end_pos[2]
     \/ abs(end_pos[1] - start_pos[1]) = abs(end_pos[2] - start_pos[2])
  THEN Slide(self, b, start_pos, end_pos,
             Step3(start_pos[1], end_pos[1]), Step3(start_pos[2], end_pos[2]))
  ELSE Returns(FALSE)

Rook_can_move(self, b, start_pos, end_pos) ==
  IF start_pos[1] = end_pos[1] \/ start_pos[2] = end_pos[2]
  THEN Slide(self, b, start_pos, end_pos,
             Step3(start_pos[1], end_pos[1]), Step3(start_pos[2], end_pos[2]))
  ELSE Returns(FALSE)

Bishop_can_move(self, b, start_pos, end_pos) ==
  IF abs(end_pos[1] - start_pos[1]) = abs(end_pos[2] - start_pos[2])
  THEN Slide(self, b, start_pos, end_pos,
             Step2(start_pos[1], end_pos[1]), Step2(start_pos[2], end_pos[2]))
  ELSE Returns(FALSE)

\* Knight.can_move that also wants the squares beside the start to be empty.
Knight_can_move_Blockable(self, b, start_pos, end_pos) ==
  IF \/ (abs(end_pos[1] - start_pos[1]) = 2 /\ abs(end_pos[2] - start_pos[2]) = 1)
     \/ (abs(end_pos[1] - start_pos[1]) = 1 /\ abs(end_pos[2] - start_pos[2]) = 2)
  THEN Returns(/\ ~is_occupied(b, <<end_pos[1], start_pos[2]>>)
               /\ ~is_occupied(b, <<start_pos[1], end_pos[2]>>)
               /\ DestOk(self, b, end_pos))
  ELSE Returns(FALSE)

Knight_can_move(self, b, start_pos, end_pos) ==
  IF \/ (abs(end_pos[1] - start_pos[1]) = 2 /\ abs(end_pos[2] - start_pos[2]) = 1)
     \/ (abs(end_pos[1] - start_pos[1]) = 1 /\ abs(end_pos[2] - start_pos[2]) = 2)
  THEN Returns(DestOk(self, b, end_pos))
  ELSE Returns(FALSE)

\* Pawn.can_move without the home-row test of the double advance.
Pawn_can_move_AnyRow(self, b, start_pos, end_pos) ==
  LET start_row == start_pos[1]
      start_col == start_pos[2]
      end_row   == end_pos[1]
      end_col   == end_pos[2]
      row_step  == IF self.color = WHITE THEN 1 ELSE -1
  IN  IF start_col = end_col
      THEN IF start_row + row_step = end_row
           THEN Returns(~is_occupied(b, end_pos))
           ELSE IF start_row + 2 * row_step = end_row
                THEN Returns(/\ ~is_occupied(b, <<start_row + row_step, start_col>>)
                             /\ ~is_occupied(b, end_pos))
                ELSE Returns(FALSE)
      ELSE IF abs(start_col - end_col) = 1 /\ start_row + row_step = end_row
           THEN LET target_piece == get_piece(b, end_pos)
                IN  Returns(target_piece # None /\ target_piece.color # self.color)
           ELSE Returns(FALSE)

Pawn_can_move(self, b, start_pos, end_pos) ==
  LET start_row == start_pos[1]
      start_col == start_pos[2]
      end_row   == end_pos[1]
      end_col   == end_pos[2]
      row_step  == IF self.color = WHITE THEN 1 ELSE -1
  IN  IF start_col = end_col
      THEN IF start_row + row_step = end_row
           THEN Returns(~is_occupied(b, end_pos))
           ELSE IF /\ start_row + 2 * row_step = end_row
                   /\ \/ (self.color = WHITE /\ start_row = 1)
                      \/ (self.color = BLACK /\ start_row = 6)
                THEN Returns(/\ ~is_occupied(b, <<start_row + row_step, start_col>>)
                             /\ ~is_occupied(b, end_pos))
                ELSE Returns(FALSE)
      ELSE IF abs(start_col - end_col) = 1 /\ start_row + row_step = end_row
           THEN LET target_piece == get_piece(b, end_pos)
                IN  Returns(target_piece # None /\ target_piece.color # self.color)
           ELSE Returns(FALSE)

\* piece.can_move(board, start_pos, end_pos), dispatched on the piece's class.
can_move(self, b, start_pos, end_pos) ==
  CASE self.kind = "King"   -> King_can_move(self, b, start_pos, end_pos)
    [] self.kind = "Queen"  -> Queen_can_move(self, b, start_pos, end_pos)
    [] self.kind = "Rook"   -> Rook_can_move(self, b, start_pos, end_pos)
    [] self.kind = "Bishop" -> Bishop_can_move(self, b, start_pos, end_pos)
    [] self.kind = "Knight" -> Knight_can_move(self, b, start_pos, end_pos)
    [] self.kind = "Pawn"   -> Pawn_can_move(self, b, start_pos, end_pos)

(* ------------------------------- Board ---------------------------------- *)

BackRank == <<"Rook", "Knight", "Bishop", "Queen", "King", "Bishop", "Knight", "Rook">>

\* Board.setup_pieces on grid b: assigns rows 0, 1, 6 and 7 and nothing else.
setup_pieces(b) ==
  [r \in Idx |->
     [c \in Idx |->
        CASE r = 0 -> Piece(BackRank[c + 1], WHITE)
          [] r = 1 -> Piece("Pawn", WHITE)
          [] r = 7 -> Piece(BackRank[c + 1], BLACK)
          [] r = 6 -> Piece("Pawn", BLACK)
          [] OTHER -> b[r][c]]]

is_valid_move(b, start_pos, end_pos) ==
  IF ~(InGrid(start_pos) /\ InGrid(end_pos)) THEN Returns(FALSE)
  ELSE LET piece == b[start_pos[1]][start_pos[2]]
       IN  IF piece = None THEN Returns(FALSE)
           ELSE LET cm == can_move(piece, b, start_pos, end_pos)
                IN  IF cm.raised \/ ~cm.ret THEN cm
                    ELSE LET target_piece == b[end_pos[1]][end_pos[2]]
                         IN  IF target_piece # None /\ target_piece.color = piece.color
                             THEN Outcome(FALSE, FALSE, cm.off)
                             ELSE Outcome(TRUE, FALSE, cm.off)

\* move_piece that relocates whatever stands on start without asking is_valid_move.
move_piece_Unchecked(b, start_pos, end_pos) ==
  LET v == is_valid_move(b, start_pos, end_pos)
  IN  IF InGrid(start_pos) /\ InGrid(end_pos) /\ b[start_pos[1]][start_pos[2]] # None
      THEN [board |-> [b EXCEPT ![end_pos[1]][end_pos[2]] = b[start_pos[1]][start_pos[2]],
                                ![start_pos[1]][start_pos[2]] = None],
            out   |-> Returns(TRUE)]
      ELSE [board |-> b, out |-> v]

\* move_piece that forgets to clear the start square.
move_piece_NoClear(b, start_pos, end_pos) ==
  LET v == is_valid_move(b, start_pos, end_pos)
  IN  IF ~v.raised /\ v.ret
      THEN [board |-> [b EXCEPT ![end_pos[1]][end_pos[2]] = b[start_pos[1]][start_pos[2]]],
            out   |-> v]
      ELSE [board |-> b, out |-> v]

\* Board.move_piece: the grid afterwards and what the call returned.
move_piece(b, start_pos, end_pos) ==
  LET v == is_valid_move(b, start_pos, end_pos)
  IN  IF ~v.raised /\ v.ret
      THEN [board |-> [b EXCEPT ![end_pos[1]][end_pos[2]] = b[start_pos[1]][start_pos[2]],
                                ![start_pos[1]][start_pos[2]] = None],
            out   |-> v]
      ELSE [board |-> b, out |-> v]

(* -------------------------------- Game ---------------------------------- *)

\* The record of the last call made on the game: the operation, what it
\* returned (Python's repr), whether it indexed the grid outside [0,8) x [0,8),
\* and for Game.move the claimed player and the kind of request it was.
Call(op, ret, off, player, req) ==
  [op |-> op, ret |-> ret, off |-> off, player |-> player, req |-> req,
   start |-> <<0, 0>>, end |-> <<0, 0>>]

PyStr(out) == IF out.raised THEN "IndexError" ELSE IF out.ret THEN "True" ELSE "False"

\* Squares and coordinates handed to the calls.
Coord == (0 - Margin) .. (7 + Margin)
AnyPos == Coord \X Coord
MoveInputs == Coord \X MoveFiles

\* The pairs the claims about is_valid_move and move_piece range over: every
\* pair of squares of the grid, and every pair the calls explored may take.
CallPairs == (Pos \X Pos) \cup (MoveInputs \X MoveInputs)

\* Game.__init__: Board() (an empty grid, then setup_pieces), White to move.
Init ==
  /\ board = setup_pieces(EmptyGrid)
  /\ current_turn = WHITE
  /\ game_over = FALSE
  /\ lastCall = Call("Game", "None", FALSE, "-", "-")
  /\ nMoves = 0

\* Game.start_game()
StartGame ==
  /\ board' = setup_pieces(board)
  /\ current_turn' = WHITE
  /\ game_over' = FALSE
  /\ lastCall' = Call("start_game", "None", FALSE, "-", "-")
  /\ UNCHANGED nMoves

\* Game.end_game()
EndGame ==
  /\ game_over' = TRUE
  /\ lastCall' = Call("end_game", "Game over.", FALSE, "-", "-")
  /\ UNCHANGED <<board, current_turn, nMoves>>

\* What the contract of Game.move makes of a request in the current state.
Request(player, start_pos, end_pos) ==
  IF game_over \/ player # current_turn THEN "refuse"
  ELSE LET v == is_valid_move(board, start_pos, end_pos)
       IN  IF ~v.raised /\ v.ret THEN "accept" ELSE "illegal"

\* Game.move(player, start_pos, end_pos): the body is `pass`.
GameMove(player, start_pos, end_pos) ==
  /\ lastCall' = Call("Game.move", "None", FALSE, player,
                      Request(player, start_pos, end_pos))
  /\ UNCHANGED <<board, current_turn, game_over, nMoves>>

\* game.board.move_piece(start_pos, end_pos)
MovePiece(start_pos, end_pos) ==
  LET r == move_piece(board, start_pos, end_pos)
  IN  /\ r.board # board => nMoves < MaxGameMoves
      /\ board' = r.board
      /\ nMoves' = IF r.board # board THEN nMoves + 1 ELSE nMoves
      /\ lastCall' = Call("move_piece", PyStr(r.out), r.out.off, "-", "-")
      /\ UNCHANGED <<current_turn, game_over>>

\* game.board.is_valid_move(start_pos, end_pos)
IsValidMove(start_pos, end_pos) ==
  LET v == is_valid_move(board, start_pos, end_pos)
  IN  /\ lastCall' = Call("is_valid_move", PyStr(v), v.off, "-", "-")
      /\ UNCHANGED <<board, current_turn, game_over, nMoves>>

Next ==
  \/ StartGame
  \/ EndGame
  \/ \E p \in Color, s \in MoveInputs, e \in MoveInputs : GameMove(p, s, e)
  \/ \E s \in MoveInputs, e \in MoveInputs : MovePiece(s, e)
  \/ \E s \in MoveInputs, e \in MoveInputs : IsValidMove(s, e)

Spec == Init /\ [][Next]_vars

(* --------------------------- a bare Board ------------------------------- *)

\* board.move_piece(start_pos, end_pos) on a Board no Game resets; of the call
\* only the operation is recorded.
BoardMovePiece(start_pos, end_pos) ==
  LET r == move_piece(board, start_pos, end_pos)
  IN  /\ r.board # board => nMoves < MaxMoves
      /\ board' = r.board
      /\ nMoves' = IF r.board # board THEN nMoves + 1 ELSE nMoves
      /\ lastCall' = Call("move_piece", "-", FALSE, "-", "-")
      /\ UNCHANGED <<current_turn, game_over>>

NextBoard == \E s \in MoveInputs, e \in MoveInputs : BoardMovePiece(s, e)

SpecBoard == Init /\ [][NextBoard]_vars

(* ------------------- can_move on boards drawn at will ------------------- *)

\* The squares on which a drawn board holds pieces.
PureSquares == (1 .. 6) \X PureFiles

\* A piece other than the mover: a pawn of either colour on a square.
OtherChoices == PureSquares \X Color

\* The sets of at most n other pieces.
RECURSIVE UpTo(_)
UpTo(n) ==
  IF n = 0 THEN {{}}
  ELSE LET prev == UpTo(n - 1)
       IN  prev \cup {S \cup {x} : S \in prev, x \in OtherChoices}

OtherSets ==
  {S \in UpTo(MaxOthers) : \A x \in S, y \in S : x[1] = y[1] => x = y}

\* The grid holding `self` on square m and the pawns of `others` elsewhere.
Drawn(m, self, others) ==
  [r \in Idx |->
     [c \in Idx |->
        IF <<r, c>> = m THEN self
        ELSE IF \E x \in others : x[1] = <<r, c>>
             THEN Piece("Pawn", (CHOOSE x \in others : x[1] = <<r, c>>)[2])
             ELSE None]]

\* The record of a can_move call: the mover's square, the destination, the result.
Probe(op, start_pos, end_pos, out) ==
  [op |-> op, ret |-> PyStr(out), off |-> out.off, player |-> "-", req |-> "-",
   start |-> start_pos, end |-> end_pos]

InitPure ==
  /\ \E h \in Halves, m \in PureSquares, k \in Kinds, c \in Color, others \in OtherSets :
        /\ m[1] \in h
        /\ \A x \in others : x[1] # m /\ x[1][1] \in h
        /\ board = Drawn(m, Piece(k, c), others)
        /\ lastCall = Probe("draw", m, m, Returns(FALSE))
  /\ current_turn = WHITE
  /\ game_over = FALSE
  /\ nMoves = 0

\* board[start].can_move(board, start, end_pos), start the mover's square.
CanMove(end_pos) ==
  LET s == lastCall.start
      out == can_move(board[s[1]][s[2]], board, s, end_pos)
  IN  /\ lastCall.op = "draw"
      /\ lastCall' = Probe("can_move", s, end_pos, out)
      /\ UNCHANGED <<board, current_turn, game_over, nMoves>>

NextPure == \E e \in PureSquares : CanMove(e)

SpecPure == InitPure /\ [][NextPure]_vars

(* ------------------------------ geometry -------------------------------- *)
(* What the claims say of squares, stated without the code's loops.          *)

At(b, pos) == b[pos[1]][pos[2]]

dRow(s, e) == abs(e[1] - s[1])
dCol(s, e) == abs(e[2] - s[2])

SameLine(s, e) == s # e /\ (s[1] = e[1] \/ s[2] = e[2])
SameDiagonal(s, e) == s # e /\ dRow(s, e) = dCol(s, e)

Aligned(kind, s, e) ==
  CASE kind = "Rook"   -> SameLine(s, e)
    [] kind = "Bishop" -> SameDiagonal(s, e)
    [] kind = "Queen"  -> SameLine(s, e) \/ SameDiagonal(s, e)
    [] OTHER           -> FALSE

\* The squares strictly between two aligned squares.
Between(s, e) ==
  LET d == IF dRow(s, e) > dCol(s, e) THEN dRow(s, e) ELSE dCol(s, e)
  IN  {p \in Pos : \E k \in 1 .. (d - 1) :
                     /\ (p[1] - s[1]) * d = k * (e[1] - s[1])
                     /\ (p[2] - s[2]) * d = k * (e[2] - s[2])}

Forward(color) == IF color = WHITE THEN 1 ELSE -1
HomeRow(color) == IF color = WHITE THEN 1 ELSE 6

\* The mover of the last can_move call.
Mover == At(board, lastCall.start)

(* ------------------------------- claims --------------------------------- *)

\* C6: for Queen, Rook and Bishop and every in-bounds pair aligned for the piece,
\* can_move returns False whenever a square strictly between start and end is
\* occupied, whatever the destination holds.
C6_BlockedSliderCannotMove ==
  (/\ lastCall.op = "can_move"
   /\ Aligned(Mover.kind, lastCall.start, lastCall.end)
   /\ \E p \in Between(lastCall.start, lastCall.end) : At(board, p) # None)
  => lastCall.ret = "False"

\* A slider was asked to capture an enemy piece behind an occupied square.
C6_Witness ==
  /\ lastCall.op = "can_move"
  /\ Mover.kind = "Bishop"
  /\ Aligned(Mover.kind, lastCall.start, lastCall.end)
  /\ \E p \in Between(lastCall.start, lastCall.end) : At(board, p) # None
  /\ At(board, lastCall.end) # None
  /\ At(board, lastCall.end).color # Mover.color
  /\ lastCall.ret = "False"

\* The three legal pawn moves of C7.
PawnAdvance(b, color, s, e) ==
  /\ s[2] = e[2]
  /\ e[1] = s[1] + Forward(color)
  /\ At(b, e) = None

PawnDouble(b, color, s, e) ==
  /\ s[2] = e[2]
  /\ e[1] = s[1] + 2 * Forward(color)
  /\ s[1] = HomeRow(color)
  /\ At(b, <<s[1] + Forward(color), s[2]>>) = None
  /\ At(b, e) = None

PawnCapture(b, color, s, e) ==
  /\ dCol(s, e) = 1
  /\ e[1] = s[1] + Forward(color)
  /\ At(b, e) # None
  /\ At(b, e).color # color

\* C7: Pawn.can_move is True exactly for a single advance onto an empty square,
\* a double advance from the home row over two empty squares, or a diagonal step
\* forward onto an enemy piece.
C7_PawnMovesExactly ==
  (lastCall.op = "can_move" /\ Mover.kind = "Pawn")
  => (lastCall.ret = "True" <=>
        \/ PawnAdvance(board, Mover.color, lastCall.start, lastCall.end)
        \/ PawnDouble(board, Mover.color, lastCall.start, lastCall.end)
        \/ PawnCapture(board, Mover.color, lastCall.start, lastCall.end))

\* A pawn off its home row was asked to advance two empty squares, and refused.
C7_Witness ==
  /\ lastCall.op = "can_move"
  /\ Mover.kind = "Pawn"
  /\ lastCall.start[1] # HomeRow(Mover.color)
  /\ lastCall.end = <<lastCall.start[1] + 2 * Forward(Mover.color), lastCall.start[2]>>
  /\ At(board, <<lastCall.start[1] + Forward(Mover.color), lastCall.start[2]>>) = None
  /\ At(board, lastCall.end) = None
  /\ lastCall.ret = "False"

\* C8: for every piece kind, can_move from a square onto itself does not return
\* True, and so is_valid_move(s, s) is not True either.
C8_NoZeroMove ==
  (lastCall.op = "can_move" /\ lastCall.start = lastCall.end)
  => /\ lastCall.ret # "True"
     /\ PyStr(is_valid_move(board, lastCall.start, lastCall.start)) # "True"

\* A king was asked to move onto its own square, and refused.
C8_Witness ==
  /\ lastCall.op = "can_move"
  /\ lastCall.start = lastCall.end
  /\ Mover.kind = "King"
  /\ lastCall.ret = "False"

KnightJump(s, e) ==
  \/ (dRow(s, e) = 2 /\ dCol(s, e) = 1)
  \/ (dRow(s, e) = 1 /\ dCol(s, e) = 2)

\* C9: Knight.can_move is True exactly when the move is a (2,1) or (1,2) jump and
\* the destination is empty or holds an enemy piece: nothing but the geometry
\* and the destination square decides it.
C9_KnightJumps ==
  (lastCall.op = "can_move" /\ Mover.kind = "Knight")
  => (lastCall.ret = "True" <=>
        /\ KnightJump(lastCall.start, lastCall.end)
        /\ \/ At(board, lastCall.end) = None
           \/ At(board, lastCall.end).color # Mover.color)

\* A knight jumped over two occupied squares lying between start and end.
C9_Witness ==
  /\ lastCall.op = "can_move"
  /\ Mover.kind = "Knight"
  /\ KnightJump(lastCall.start, lastCall.end)
  /\ lastCall.ret = "True"
  /\ LET s == lastCall.start
         e == lastCall.end
         lo(a, b) == IF a < b THEN a ELSE b
         hi(a, b) == IF a < b THEN b ELSE a
         inside == {p \in Pos : /\ p[1] >= lo(s[1], e[1]) /\ p[1] <= hi(s[1], e[1])
                                /\ p[2] >= lo(s[2], e[2]) /\ p[2] <= hi(s[2], e[2])
                                /\ p # s /\ p # e}
     IN  Cardinality({p \in inside : At(board, p) # None}) = 2

\* The pieces of one colour, and its kings, on a grid.
Count(b, color) == Cardinality({p \in Pos : At(b, p).color = color})
Kings(b, color) == Cardinality({p \in Pos : At(b, p) = Piece("King", color)})
Other(color) == IF color = WHITE THEN BLACK ELSE WHITE

\* C1: move_piece returns False and leaves all 64 squares as they were when
\* is_valid_move is False; when it returns True exactly two squares change:
\* start becomes empty, end holds the piece that stood on start.
C1_MovePieceFrame ==
  \A q \in CallPairs :
    LET s == q[1]
        e == q[2]
        v == is_valid_move(board, s, e)
        r == move_piece(board, s, e)
    IN  /\ PyStr(v) = "False" => (PyStr(r.out) = "False" /\ r.board = board)
        /\ PyStr(r.out) = "True" =>
             /\ InGrid(s) /\ InGrid(e)
             /\ At(r.board, s) = None
             /\ At(r.board, e) = At(board, s)
             /\ {p \in Pos : At(r.board, p) # At(board, p)} = {s, e}
             /\ s # e

\* move_piece calls have moved three pieces, the last one taking a white piece.
C1_Witness ==
  /\ lastCall.op = "move_piece"
  /\ nMoves = 3
  /\ Count(board, WHITE) = 15
  /\ Count(board, BLACK) = 16

\* C10: over move_piece calls from the standard layout no piece is created or
\* duplicated: a successful call keeps the number of the mover's pieces and
\* takes one enemy piece exactly when the destination was occupied, so a colour
\* never has more than 16 pieces nor more than one king.
C10_PiecesConserved ==
  /\ \A c \in Color : Count(board, c) <= 16 /\ Kings(board, c) <= 1
  /\ \A s \in Pos, e \in Pos :
       LET r == move_piece(board, s, e)
           me == At(board, s).color
       IN  PyStr(r.out) = "True" =>
             /\ Count(r.board, me) = Count(board, me)
             /\ Count(r.board, Other(me)) =
                  Count(board, Other(me)) - (IF At(board, e) # None THEN 1 ELSE 0)

\* A move_piece call took a black piece: Black is down to 15.
C10_Witness ==
  /\ lastCall.op = "move_piece"
  /\ nMoves > 0
  /\ Count(board, WHITE) = 16
  /\ Count(board, BLACK) = 15

\* The standard starting layout, square by square.
StandardLayout ==
  [r \in Idx |->
     [c \in Idx |->
        IF r = 0 THEN Piece(BackRank[c + 1], WHITE)
        ELSE IF r = 1 THEN Piece("Pawn", WHITE)
        ELSE IF r = 6 THEN Piece("Pawn", BLACK)
        ELSE IF r = 7 THEN Piece(BackRank[c + 1], BLACK)
        ELSE None]]

\* C2: after start_game(), called in any reachable state, the board is the
\* standard layout on all 64 squares (rows 2 to 5 empty), it is White's turn
\* and the game is not over.
C2_StartGameResets ==
  lastCall.op = "start_game" =>
    /\ board = StandardLayout
    /\ current_turn = WHITE
    /\ game_over = FALSE

\* C3: a Game.move by the player to move, in a game that is not over, with a
\* move is_valid_move accepts, applies the move through move_piece and hands
\* the turn to the other colour.
C3_MoveAppliesAndFlipsTurn ==
  [][(lastCall'.op = "Game.move" /\ lastCall'.req = "accept") =>
       /\ current_turn' = Other(current_turn)
       /\ \E s \in MoveInputs, e \in MoveInputs :
            /\ PyStr(is_valid_move(board, s, e)) = "True"
            /\ board' = move_piece(board, s, e).board]_vars

\* C4: a Game.move made when the game is over, or by the player who is not to
\* move, leaves board, current_turn and game_over as they were and returns a
\* signal that differs from the one an accepted move returns.
C4_RefusedMoveIsSignalled ==
  [][(lastCall'.op = "Game.move" /\ lastCall'.req = "refuse") =>
       /\ board' = board
       /\ current_turn' = current_turn
       /\ game_over' = game_over
       /\ (lastCall.op = "Game.move" /\ lastCall.req = "accept")
            => lastCall'.ret # lastCall.ret]_vars

\* C5: is_valid_move completes with a boolean for every coordinate pair: False
\* when a coordinate is outside [0,8), and for pairs inside (start = end
\* included) without indexing the grid outside [0,8) x [0,8) and without
\* raising.
C5_ValidMoveStaysOnGrid ==
  \A s \in AnyPos, e \in AnyPos :
    LET v == is_valid_move(board, s, e)
    IN  /\ ~v.raised
        /\ ~v.off
        /\ (~InGrid(s) \/ ~InGrid(e)) => PyStr(v) = "False"

====
